---- MODULE Spec2Model ----
(***************************************************************************)
(* Model of the fiesta-net network core: the framing of the read buffer    *)
(* (FiestaNetworkClient), the reactor handler (FiestaHandler) and the      *)
(* packet dispatch pool (PacketProcessingThreadPool).                      *)
(*                                                                         *)
(* A byte is a number in 0..255.  A Buffer is modelled by the sequence of  *)
(* its unread bytes.  A packet is [header |-> u16, data |-> bytes].        *)
(***************************************************************************)
EXTENDS Integers, Sequences, FiniteSets, Bags, TLC

VARIABLES
    clients,            \* FiestaHandler.clients: the tokens in the registry
    token_count,        \* FiestaHandler.token_count
    armed,              \* event loop: token -> interest of its armed one-shot registration
    pc,                 \* position of the reactor thread
    cur,                \* the (token, events) pair client_ready is handling
    client_disconnect,  \* client_ready's local flag
    packets_to_process, \* client_ready's local vector of jobs
    reregs,             \* reregister calls made while handling the current event
    io,                 \* what happened while handling the current event: what read() and
                        \* write() returned, the packets pushed, the jobs submitted,
                        \* the values set_alive was called with
    read_buffer,        \* per connection: FiestaNetworkClient.read_buffer
    write_buffer,       \* per connection: FiestaNetworkClient.write_buffer
    packet_queue,       \* per connection: FiestaNetworkClient.packet_queue
    is_alive,           \* per connection: FiestaNetworkClient.is_alive
    interest,           \* per connection: FiestaNetworkClient.interest
    shut,               \* per connection: the socket was shut down (Shutdown::Both)
    sent,               \* per connection: the bytes the socket accepted, in order
    chan,               \* the pool's channel (packet_sender / packet_receiver)
    nthreads,           \* the pool's worker count
    worker,             \* per worker thread: the job it pulled, or NoJob
    processed,          \* the bag of jobs handed to the inner processing logic
    stream,             \* environment: the frames the peer sends
    wire,               \* environment: the bytes of stream not yet read
    out,                \* environment: the append_send calls made and the bytes of OutStream they appended
    submitted,          \* environment: per submitter, the jobs it has submitted
    held,               \* per thread: the field locks of connection 1 it holds, in
                        \* the order it took them
    at,                 \* per thread: the lock operations left of the step it runs
    runs,               \* per thread: the steps it has started
    raced,              \* per connection: the borrow flag of its RefCell was updated
                        \* by two threads at once
    poisoned            \* per connection: the fields whose Mutex is poisoned

vars == <<clients, token_count, armed, pc, cur, client_disconnect,
          packets_to_process, reregs, io, read_buffer, write_buffer, packet_queue,
          is_alive, interest, shut, sent, chan, nthreads, worker, processed,
          stream, wire, out, submitted, held, at, runs, raced, poisoned>>

reactorVars == <<clients, token_count, armed, pc, cur, client_disconnect,
                 packets_to_process, reregs, io>>
readVars    == <<read_buffer, packet_queue>>
writeVars   == <<write_buffer, sent>>
poolVars    == <<chan, nthreads, worker, processed>>
envVars     == <<stream, wire, out, submitted>>
lockVars    == <<held, at, runs>>
syncVars    == <<raced, poisoned>>

(***************************************************************************)
(* Bounds of the model.                                                    *)
(***************************************************************************)
MaxFrames  == 2         \* frames in one stream, and frames one read completes
MaxAppends == 2         \* append_send calls of the outbound environment
MaxJobs    == 2         \* jobs each submitter of the dispatch environment submits
MaxWorkers == 2         \* largest worker count the pool is built with
MaxClients == 2         \* connections the reactor environment opens
MaxTotalJobs == 1       \* packets the reactor environment lets the peers send
MaxReadBuf == 264       \* bytes the reactor environment lets a read buffer hold
MaxEvents  == 1         \* events the reactor handles in the lock environment

(***************************************************************************)
(* Program constants.                                                      *)
(***************************************************************************)
SERVER_TOKEN == 0       \* client.rs:11
CHUNK        == 1024    \* client.rs:102 and client.rs:140, the scratch arrays
SMALL_MAX    == 255     \* client.rs:52 and client.rs:70, the "s > 255" tests

Min(a, b) == IF a < b THEN a ELSE b

Err == -1               \* the Err(_) of a Result<u8 / u16 / usize, Error>

(***************************************************************************)
(* Buffer (crate module `buffer`, used through `use buffer::*`).           *)
(***************************************************************************)
bytes_remaining(b) == Len(b)

append(b, bytes) == b \o bytes

peek_u8(b, off) == IF off + 1 <= Len(b) THEN b[off + 1] ELSE Err

\* little-endian
peek_u16(b, off) ==
    IF off + 2 <= Len(b) THEN b[off + 1] + 256 * b[off + 2] ELSE Err

\* consumes n bytes from the front; with fewer than n bytes nothing is consumed
advance_read(b, n) == IF n <= Len(b) THEN SubSeq(b, n + 1, Len(b)) ELSE b

\* number of bytes copied out, without consuming
peek_max(b, off, limit) ==
    IF off <= Len(b) THEN Min(limit, Len(b) - off) ELSE Err

(***************************************************************************)
(* FiestaNetworkClient: framing.                                           *)
(***************************************************************************)
get_next_size(rb) ==
    LET small_size == peek_u8(rb, 0) IN
    IF small_size = Err THEN Err
    ELSE IF small_size > 0 THEN small_size
    ELSE peek_u16(rb, 1)

\* can_read_next_packet without the byte(s) of the length field in the size test
can_read_eager(rb) ==
    LET s == get_next_size(rb) IN
    IF s = Err THEN FALSE ELSE bytes_remaining(rb) >= s + 2

can_read_next_packet(rb) ==
    LET s == get_next_size(rb) IN
    IF s = Err THEN FALSE
    ELSE bytes_remaining(rb) >= s + 2 + (IF s > SMALL_MAX THEN 2 ELSE 1)

\* The result of read_next_packet on read buffer rb and packet queue pq:
\* the two afterwards, and whether an unwrap() panicked on the way.
read_next_packet(rb, pq) ==
    IF ~can_read_next_packet(rb) THEN [rb |-> rb, pq |-> pq, panic |-> FALSE]
    ELSE
      LET size == get_next_size(rb)
          g1   == IF size > SMALL_MAX THEN advance_read(rb, 3)
                                      ELSE advance_read(rb, 1)
          hdr  == peek_u16(g1, 0)               \* read_u16()
          g2   == advance_read(g1, 2)
      IN  IF hdr = Err \/ Len(g2) < size        \* read_u16 / read_bytes: Err
          THEN [rb |-> (IF hdr = Err THEN g1 ELSE g2), pq |-> pq, panic |-> TRUE]
          ELSE [rb |-> advance_read(g2, size),
                pq |-> Append(pq, [header |-> hdr, data |-> SubSeq(g2, 1, size)]),
                panic |-> FALSE]

\* while self.can_read_next_packet() { self.read_next_packet(); }
RECURSIVE extract_loop(_, _)
extract_loop(rb, pq) ==
    IF ~can_read_next_packet(rb) THEN [rb |-> rb, pq |-> pq, panic |-> FALSE]
    ELSE LET r == read_next_packet(rb, pq) IN
         IF r.panic THEN r ELSE extract_loop(r.rb, r.pq)


(***************************************************************************)
(* FiestaNetworkClient::readable.  A read result is                        *)
(*   [kind |-> "data", bytes |-> a non-empty chunk of at most CHUNK bytes] *)
(*   [kind |-> "zero", bytes |-> <<>>]     Ok(0)                           *)
(*   [kind |-> "err",  bytes |-> <<>>]     Err(e)                          *)
(* with, in `shutdown`, what the shutdown(Shutdown::Both) of the zero and  *)
(* err arms returns: "ok", or "err" (the socket is not connected any       *)
(* more), on which the unwrap() panics.                                    *)
(* readable(rb, pq, res) is what the call leaves behind: the read buffer,  *)
(* the packet queue, whether the socket was shut down and set_alive(false) *)
(* called (fatal), whether an unwrap() panicked, and the fields whose      *)
(* guards the panic unwinds through.                                       *)
(***************************************************************************)
DataRead(bytes) == [kind |-> "data", bytes |-> bytes, shutdown |-> "ok"]
ZeroRead == [kind |-> "zero", bytes |-> <<>>, shutdown |-> "ok"]
ErrRead  == [kind |-> "err",  bytes |-> <<>>, shutdown |-> "ok"]

\* the same result of read() or write(), followed by a shutdown that fails
ShutdownErr(res) == [res EXCEPT !.shutdown = "err"]

readable(rb, pq, res) ==
    IF res.kind # "data" /\ res.shutdown = "err"
    THEN \* shutdown(..).unwrap() panics under the socket's guard, before
         \* set_alive(false) and *disconnect = true
         [rb |-> rb, pq |-> pq, panic |-> TRUE, fatal |-> FALSE,
          poison |-> {"client"}]
    ELSE
    LET filled == IF res.kind = "data" THEN append(rb, res.bytes) ELSE rb
        r      == extract_loop(filled, pq)
    IN  [rb |-> r.rb, pq |-> r.pq, panic |-> r.panic,
         fatal |-> (res.kind # "data"),
         poison |-> IF r.panic THEN {"read_buffer"} ELSE {}]

\* The connection fields after readable() on connection t.
Readable(t, res) ==
    LET r == readable(read_buffer[t], packet_queue[t], res) IN
    /\ read_buffer'  = [read_buffer  EXCEPT ![t] = r.rb]
    /\ packet_queue' = [packet_queue EXCEPT ![t] = r.pq]
    /\ shut'         = [shut     EXCEPT ![t] = @ \/ r.fatal]
    /\ is_alive'     = [is_alive EXCEPT ![t] = IF r.fatal THEN FALSE ELSE @]

(***************************************************************************)
(* The framing environment: a peer that sends a stream of frames, which    *)
(* the socket hands over in chunks.  A frame is described by               *)
(* [ext, len, header, seed]; its body is the byte pattern Body(len, seed). *)
(***************************************************************************)
Body(len, seed) == [i \in 1..len |-> (seed * i) % 256]

LE16(v) == <<v % 256, v \div 256>>

Encode(f) ==
    (IF f.ext THEN <<0>> \o LE16(f.len) ELSE <<f.len>>)
        \o LE16(f.header) \o Body(f.len, f.seed)

PacketOf(f) == [header |-> f.header, data |-> Body(f.len, f.seed)]

RECURSIVE StreamBytes(_)
StreamBytes(s) == IF s = <<>> THEN <<>> ELSE Encode(Head(s)) \o StreamBytes(Tail(s))

StreamPackets(s) == [i \in 1..Len(s) |-> PacketOf(s[i])]

Frame(e, l, h, sd) == [ext |-> e, len |-> l, header |-> h, seed |-> sd]

ShortLens == {1, 2, 3, 254, 255}
ExtLens   == {256, 257}
\* <<header, seed of the body pattern>>
Contents  == {<<258, 7>>, <<65280, 0>>}

\* one frame of every length, header and body pattern
SingleFrames ==
    {Frame(FALSE, l, c[1], c[2]) : l \in ShortLens, c \in Contents}
      \cup {Frame(TRUE, l, c[1], c[2]) : l \in ExtLens, c \in Contents}
      \cup {Frame(TRUE, 1, 258, 7), Frame(TRUE, 0, 0, 0)}

\* the frames that longer streams are made of
MultiFrames ==
    {Frame(FALSE, 2, 0, 0), Frame(TRUE, 256, 65280, 7)}

RECURSIVE SeqsUpTo(_, _)
SeqsUpTo(S, n) ==
    IF n = 0 THEN {<<>>}
    ELSE LET shorter == SeqsUpTo(S, n - 1) IN
         shorter \cup {Append(q, x) : q \in shorter, x \in S}

Streams == {<<f>> : f \in SingleFrames}
             \cup {s \in SeqsUpTo(MultiFrames, MaxFrames) : Len(s) >= 2}

\* an extended frame as a sender builds it has a length that needs 16 bits
ValidFrame(f) == IF f.ext THEN f.len > SMALL_MAX ELSE f.len \in 1..SMALL_MAX
ValidStream(s) == \A i \in 1..Len(s) : ValidFrame(s[i])

AllEvents == {"readable", "writable", "error", "hup"}     \* EventSet::all()
NoJob == [none |-> TRUE]
\* nothing done yet in the current event: no read(), no write(), no packet
\* pushed by read_next_packet, no job handed to the processor, no call of
\* set_alive
NoIo == [read |-> "none", write |-> "none", pushed |-> <<>>, submitted |-> <<>>,
         set_alive |-> <<>>]

\* The threads: the reactor thread and the pool's worker threads.
REACTOR == 0
Threads == {REACTOR} \cup (1..MaxWorkers)

\* the bytes the processing logic answers a job with
Reply == <<5, 6>>

\* a worker thread that panicked: its loop over the channel is gone
Dead == [none |-> FALSE]

\* worker w is inside the processing logic, with the job it pulled
Busy(w) == worker[w] # NoJob /\ worker[w] # Dead

(***************************************************************************)
(* The connection handle.  A job carries the connection as                 *)
(* Arc<RefCell<Box<FiestaNetworkClient>>>, and `unsafe impl Send` lets it  *)
(* cross to the worker threads.  Every use of the connection, by the       *)
(* reactor in client_ready and by the processing logic on a worker, goes   *)
(* through RefCell::borrow(), which updates the cell's borrow flag without *)
(* synchronisation.  Two threads that borrow the same cell at once race on *)
(* the flag; what the flag holds afterwards is not defined, and a later    *)
(* borrow() may find it "already mutably borrowed" and panic.              *)
(***************************************************************************)
\* borrow() on a cell whose flag was, or was not, raced on: what it can do
borrow(flag_raced) == IF flag_raced THEN {"ok", "panic"} ELSE {"ok"}

\* a thread other than `self` holds a borrow of connection t: a worker
\* whose processing logic runs on a job of t, or a thread inside a step of
\* the lock environment, whose connection is 1 (the removal from the
\* registry borrows nothing)
Concurrent(self, t) ==
    \/ \E w \in (1..nthreads) \ {self} : Busy(w) /\ worker[w].client = t
    \/ \E th \in Threads \ {self} :
         at[th] # <<>> /\ at[th][1].op # "remove" /\ t = 1

\* the flag of connection t after `self` borrowed it: raced on once a borrow
\* overlapped another thread's; what a raced flag does is borrow()'s choice
Races(self, t) == {raced[t] \/ Concurrent(self, t)}

\* no thread is inside a step on connection 1
ThreadsIdle ==
    /\ held = [th \in Threads |-> <<>>]
    /\ at   = [th \in Threads |-> <<>>]
    /\ runs = [th \in Threads |-> 0]

\* The state right after one connection was accepted with token 1.
OneClient ==
    /\ clients = {1}
    /\ token_count = 1
    /\ armed = (1 :> AllEvents)
    /\ pc = "idle"
    /\ cur = [token |-> 0, events |-> {}]
    /\ client_disconnect = FALSE
    /\ packets_to_process = <<>>
    /\ reregs = 0
    /\ io = NoIo
    /\ read_buffer  = (1 :> <<>>)
    /\ write_buffer = (1 :> <<>>)
    /\ packet_queue = (1 :> <<>>)
    /\ is_alive = (1 :> TRUE)
    /\ interest = (1 :> AllEvents)
    /\ shut = (1 :> FALSE)
    /\ sent = (1 :> <<>>)
    /\ raced = (1 :> FALSE)
    /\ poisoned = (1 :> {})

IdlePool(n) ==
    /\ chan = <<>>
    /\ nthreads = n
    /\ worker = [w \in 1..n |-> NoJob]
    /\ processed = EmptyBag

InitFrame ==
    /\ OneClient
    /\ IdlePool(1)
    /\ ThreadsIdle
    /\ stream \in Streams
    /\ wire = StreamBytes(stream)
    /\ out = [pos |-> 0, calls |-> 0]
    /\ submitted = <<>>

\* One readable event on connection 1: the socket hands over the next n bytes.
FrameRead ==
    /\ pc = "idle"
    /\ wire # <<>>
    /\ \E n \in 1..Min(Len(wire), CHUNK) :
         LET res == DataRead(SubSeq(wire, 1, n)) IN
         /\ Readable(1, res)
         /\ wire' = SubSeq(wire, n + 1, Len(wire))
         /\ pc' = IF readable(read_buffer[1], packet_queue[1], res).panic
                  THEN "panicked" ELSE pc
         /\ poisoned' = [poisoned EXCEPT ![1] =
               @ \cup readable(read_buffer[1], packet_queue[1], res).poison]
    /\ UNCHANGED <<clients, token_count, armed, cur, client_disconnect,
                   packets_to_process, reregs, io, interest>>
    /\ UNCHANGED <<writeVars, poolVars, stream, out, submitted, lockVars, raced>>

NextFrame == FrameRead

SpecFrame == InitFrame /\ [][NextFrame]_vars

(***************************************************************************)
(* FiestaNetworkClient::writeable and append_send.  A write result is      *)
(*   [kind |-> "ok", n |-> s]  Ok(s), 0 < s <= the number of bytes offered *)
(*   [kind |-> "zero", n |-> 0]  Ok(0)                                     *)
(*   [kind |-> "err", n |-> 0]   Err(e)                                    *)
(* and [kind |-> "none"] when write() is not called, [kind |-> "peekerr"]  *)
(* when peek_max on the write buffer returns Err(e); `shutdown` is what    *)
(* the shutdown(Shutdown::Both) of the zero, err and peekerr arms returns. *)
(* writeable(wb, res) is what the call leaves behind: the write buffer,    *)
(* the bytes the socket accepted, whether the socket was shut down,        *)
(* whether set_alive(false) was called, the disconnect flag it raised, and *)
(* whether the unwrap() of a failed shutdown panicked.                     *)
(***************************************************************************)
OkWrite(n) == [kind |-> "ok", n |-> n, shutdown |-> "ok"]
ZeroWrite  == [kind |-> "zero", n |-> 0, shutdown |-> "ok"]
ErrWrite   == [kind |-> "err", n |-> 0, shutdown |-> "ok"]
\* write() is not called
NoWrite    == [kind |-> "none", n |-> 0, shutdown |-> "ok"]
\* peek_max returns Err(e)
PeekErr    == [kind |-> "peekerr", n |-> 0, shutdown |-> "ok"]

\* what writeable leaves behind when shutdown(..).unwrap() panics: nothing
\* was written, set_alive(false) and *disconnect = true were not reached
WritePanic(wb) ==
    [wb |-> wb, accepted |-> <<>>, shutdown |-> FALSE, dead |-> FALSE,
     disconnect |-> FALSE, panic |-> TRUE]

\* writeable advancing by the peeked size instead of the written count
writeable_advance_all(wb, res) ==
    LET size == IF res.kind = "peekerr" THEN Err ELSE peek_max(wb, 0, CHUNK) IN
    IF size = Err
    THEN IF res.shutdown = "err"
         THEN WritePanic(wb)
         ELSE [wb |-> wb, accepted |-> <<>>,
               shutdown |-> TRUE, dead |-> FALSE, disconnect |-> TRUE,
               panic |-> FALSE]
    ELSE IF size = 0
    THEN [wb |-> wb, accepted |-> <<>>,
          shutdown |-> FALSE, dead |-> FALSE, disconnect |-> FALSE,
          panic |-> FALSE]
    ELSE IF res.kind = "ok"
    THEN [wb |-> advance_read(wb, size), accepted |-> SubSeq(wb, 1, res.n),
          shutdown |-> FALSE, dead |-> FALSE, disconnect |-> FALSE,
          panic |-> FALSE]
    ELSE IF res.shutdown = "err"
    THEN WritePanic(wb)
    ELSE [wb |-> wb, accepted |-> <<>>,
          shutdown |-> TRUE, dead |-> TRUE, disconnect |-> TRUE,
          panic |-> FALSE]


writeable(wb, res) ==
    LET size == IF res.kind = "peekerr" THEN Err ELSE peek_max(wb, 0, CHUNK) IN
    IF size = Err
    THEN IF res.shutdown = "err"
         THEN WritePanic(wb)
         ELSE [wb |-> wb, accepted |-> <<>>,
               shutdown |-> TRUE, dead |-> FALSE, disconnect |-> TRUE,
               panic |-> FALSE]
    ELSE IF size = 0
    THEN [wb |-> wb, accepted |-> <<>>,
          shutdown |-> FALSE, dead |-> FALSE, disconnect |-> FALSE,
          panic |-> FALSE]
    ELSE IF res.kind = "ok"
    THEN [wb |-> advance_read(wb, res.n), accepted |-> SubSeq(wb, 1, res.n),
          shutdown |-> FALSE, dead |-> FALSE, disconnect |-> FALSE,
          panic |-> FALSE]
    ELSE IF res.shutdown = "err"
    THEN WritePanic(wb)
    ELSE [wb |-> wb, accepted |-> <<>>,
          shutdown |-> TRUE, dead |-> TRUE, disconnect |-> TRUE,
          panic |-> FALSE]

\* The connection fields after writeable() on connection t.
Writeable(t, res) ==
    LET r == writeable(write_buffer[t], res) IN
    /\ write_buffer' = [write_buffer EXCEPT ![t] = r.wb]
    /\ sent'         = [sent     EXCEPT ![t] = @ \o r.accepted]
    /\ shut'         = [shut     EXCEPT ![t] = @ \/ r.shutdown]
    /\ is_alive'     = [is_alive EXCEPT ![t] = IF r.dead THEN FALSE ELSE @]

\* what the flush step can meet with `size` bytes to offer: the peek fails,
\* or it succeeds and the write returns one of these
WriteResults(size, isShut, oks) ==
    LET fatal == {PeekErr, ErrWrite} \cup (IF isShut THEN {} ELSE {ZeroWrite})
    IN  fatal \cup {ShutdownErr(res) : res \in fatal}
          \cup (IF isShut THEN {} ELSE {OkWrite(n) : n \in oks \cap (1..size)})

\* append_send assigning EventSet::writable() instead of or-ing it in
append_send_assign(wb, int, bytes) ==
    [wb |-> append(wb, bytes), interest |-> {"writable"}]

append_send(wb, int, bytes) ==
    [wb |-> append(wb, bytes),
     interest |-> IF "writable" \in int THEN int ELSE int \cup {"writable"}]

AppendSend(t, bytes) ==
    LET r == append_send(write_buffer[t], interest[t], bytes) IN
    /\ write_buffer' = [write_buffer EXCEPT ![t] = r.wb]
    /\ interest'     = [interest EXCEPT ![t] = r.interest]

(***************************************************************************)
(* The outbound environment: append_send calls that hand over the bytes of *)
(* OutStream piece by piece, and writable events on connection 1 whose     *)
(* writes accept a positive part of what is offered.                       *)
(***************************************************************************)
OutStream == [i \in 1..(MaxAppends * (CHUNK + 1)) |-> (7 * i) % 256]

AppendSizes == {1, CHUNK + 1}

\* the byte counts a write of `size` offered bytes accepts here
AcceptChoices(size) == {1, size \div 2, size - 1, size} \cap (1..size)

InitWrite ==
    /\ OneClient
    /\ IdlePool(1)
    /\ ThreadsIdle
    /\ stream = <<>>
    /\ wire = <<>>
    /\ out = [pos |-> 0, calls |-> 0]
    /\ submitted = <<>>

WriteAppend ==
    /\ out.calls < MaxAppends
    /\ \E n \in AppendSizes :
         /\ AppendSend(1, SubSeq(OutStream, out.pos + 1, out.pos + n))
         /\ out' = [pos |-> out.pos + n, calls |-> out.calls + 1]
    /\ UNCHANGED <<reactorVars, readVars, is_alive, shut, sent, poolVars,
                   stream, wire, submitted, lockVars, syncVars>>

WriteFlush ==
    /\ LET size == peek_max(write_buffer[1], 0, CHUNK) IN
       \E res \in IF size > 0 THEN {OkWrite(n) : n \in AcceptChoices(size)}
                              ELSE {NoWrite} :
         Writeable(1, res)
    /\ UNCHANGED <<reactorVars, readVars, interest, poolVars, envVars, lockVars, syncVars>>

NextWrite == WriteAppend \/ WriteFlush

SpecWrite == InitWrite /\ [][NextWrite]_vars /\ WF_vars(WriteFlush)

(***************************************************************************)
(* PacketProcessingThreadPool.  A job (PacketProcessingInfo) is            *)
(* [packet |-> a packet, client |-> the token of its connection].          *)
(***************************************************************************)
\* PacketProcessingThreadPool::process_packet: packet_sender.send(info)
process_packet(ch, info) == Append(ch, info)

\* the worker's `for packet in rec.iter()`: the next job leaves the channel
WorkerRecv(w) ==
    /\ w \in 1..nthreads
    /\ worker[w] = NoJob
    /\ chan # <<>>
    /\ worker' = [worker EXCEPT ![w] = Head(chan)]
    /\ chan' = Tail(chan)
    /\ UNCHANGED <<nthreads, processed>>
    /\ UNCHANGED <<reactorVars, readVars, writeVars, is_alive, interest, shut,
                   envVars, lockVars, syncVars>>

\* the worker's processor.process_packet(packet): the inner processing logic
\* runs on the job.  It reaches the job's connection through borrow(), and
\* keeps the borrow while it runs; it may answer with append_send.  A panic
\* in borrow(), or in the lock().unwrap() of a poisoned write buffer, ends
\* the worker thread.
WorkerProcess(w, replies) ==
    /\ w \in 1..nthreads
    /\ Busy(w)
    /\ processed' = processed (+) SetToBag({worker[w]})
    /\ LET t == worker[w].client IN
       \E reply \in replies : \E b \in borrow(raced[t]) :
         /\ IF b = "panic" \/ (reply # <<>> /\ "write_buffer" \in poisoned[t])
            THEN /\ worker' = [worker EXCEPT ![w] = Dead]
                 /\ UNCHANGED <<write_buffer, interest>>
            ELSE /\ worker' = [worker EXCEPT ![w] = NoJob]
                 /\ IF reply = <<>>
                    THEN UNCHANGED <<write_buffer, interest>>
                    ELSE AppendSend(t, reply)
         /\ \E f \in Races(w, t) : raced' = [raced EXCEPT ![t] = f]
    /\ UNCHANGED <<chan, nthreads, poisoned>>
    /\ UNCHANGED <<reactorVars, readVars, sent, is_alive, shut, envVars, lockVars>>

(***************************************************************************)
(* The dispatch environment: submitters, each with its own clone of the    *)
(* pool, that submit MaxJobs jobs each through process_packet.             *)
(***************************************************************************)
Submitters == {1, 2}

\* the k-th job of submitter s: FiestaPacket::new(header) for connection 1
JobOf(s, k) ==
    [packet |-> [header |-> s * 256 + k, data |-> <<>>], client |-> 1]

AllJobs == {JobOf(s, k) : s \in Submitters, k \in 1..MaxJobs}

InitPool ==
    /\ OneClient
    /\ \E n \in 1..MaxWorkers : IdlePool(n)
    /\ ThreadsIdle
    /\ stream = <<>>
    /\ wire = <<>>
    /\ out = [pos |-> 0, calls |-> 0]
    /\ submitted = [s \in Submitters |-> 0]

Submit(s) ==
    /\ submitted[s] < MaxJobs
    /\ chan' = process_packet(chan, JobOf(s, submitted[s] + 1))
    /\ submitted' = [submitted EXCEPT ![s] = @ + 1]
    /\ UNCHANGED <<nthreads, worker, processed>>
    /\ UNCHANGED <<reactorVars, readVars, writeVars, is_alive, interest, shut,
                   stream, wire, out, lockVars, syncVars>>

\* PacketProcessingThreadPool::start_new_thread, which is public: one more
\* worker thread on the same channel.  A spawn that fails panics in the
\* caller (line 55) before the handle list is locked: the pool is as it was,
\* a step that changes no variable.
StartNewThread ==
    /\ nthreads < MaxWorkers
    /\ nthreads' = nthreads + 1
    /\ worker' = (nthreads + 1 :> NoJob) @@ worker
    /\ UNCHANGED <<chan, processed>>
    /\ UNCHANGED <<reactorVars, readVars, writeVars, is_alive, interest, shut,
                   envVars, lockVars, syncVars>>

\* what the processing logic of the dispatch environment does with a job:
\* nothing, or an answer through append_send
PoolReplies == {<<>>, Reply}

NextPool ==
    \/ \E s \in Submitters : Submit(s)
    \/ StartNewThread
    \/ \E w \in 1..MaxWorkers : WorkerRecv(w)
    \/ \E w \in 1..MaxWorkers : WorkerProcess(w, PoolReplies)

SpecPool ==
    /\ InitPool
    /\ [][NextPool]_vars
    /\ \A w \in 1..MaxWorkers :
         WF_vars(WorkerRecv(w)) /\ WF_vars(WorkerProcess(w, PoolReplies))

(***************************************************************************)
(* FiestaHandler: the reactor.  The event loop holds, per token, the       *)
(* interest of its armed one-shot registration (armed); delivering an      *)
(* event to Handler::ready disarms it.  The listener stays registered.     *)
(* The reactor thread is at pc = "idle" between events, and at "read",     *)
(* "write", "submit", "finish" inside client_ready; "panicked" after a     *)
(* panic! or a failed unwrap() on the reactor thread.                      *)
(***************************************************************************)
\* FiestaNetworkClient::new, entered in every per-connection field
NewClient(t) ==
    /\ read_buffer'  = (t :> <<>>) @@ read_buffer
    /\ write_buffer' = (t :> <<>>) @@ write_buffer
    /\ packet_queue' = (t :> <<>>) @@ packet_queue
    /\ is_alive'     = (t :> TRUE) @@ is_alive
    /\ interest'     = (t :> AllEvents) @@ interest
    /\ shut'         = (t :> FALSE) @@ shut
    /\ sent'         = (t :> <<>>) @@ sent
    /\ raced'        = (t :> FALSE) @@ raced
    /\ poisoned'     = (t :> {}) @@ poisoned

\* get_next_token returning the counter without the increment
get_next_token_stale(count) == count

\* get_next_token: the counter after the increment, which is the token
get_next_token(count) == count + 1

\* server_ready on counter `count` and registry `cl`, with the events of the
\* listener and what accept() returns ("register_err": Ok(Some(client)),
\* and register_opt() then returns Err): the counter and the registry
\* afterwards, the token of the connection accepted (if one was), and
\* whether the handler panicked.
server_ready(count, cl, events, result) ==
    IF "readable" \notin events \/ result = "wouldblock"
    THEN [count |-> count, clients |-> cl, accepted |-> FALSE,
          token |-> SERVER_TOKEN, panic |-> FALSE]
    ELSE IF result = "error"
    THEN [count |-> count, clients |-> cl, accepted |-> FALSE,
          token |-> SERVER_TOKEN, panic |-> TRUE]
    ELSE IF result = "register_err"
    THEN [count |-> get_next_token(count), clients |-> cl, accepted |-> FALSE,
          token |-> SERVER_TOKEN, panic |-> TRUE]
    ELSE LET token == get_next_token(count) IN
         [count |-> token, clients |-> cl \cup {token}, accepted |-> TRUE,
          token |-> token, panic |-> FALSE]

\* Handler::ready for SERVER_TOKEN: server_ready with what accept() returns
ServerReady(events, result) ==
    LET r == server_ready(token_count, clients, events, result) IN
    /\ pc = "idle"
    /\ IF r.panic
       THEN /\ r.count # token_count => token_count < MaxClients
            /\ pc' = "panicked"
            /\ token_count' = r.count
            /\ UNCHANGED <<clients, armed, cur, client_disconnect,
                           packets_to_process, reregs, io, readVars, writeVars,
                           is_alive, interest, shut, poolVars, envVars, lockVars, syncVars>>
       ELSE IF ~r.accepted
       THEN UNCHANGED vars
       ELSE /\ token_count < MaxClients
            /\ token_count' = r.count
            /\ armed' = (r.token :> AllEvents) @@ armed
            /\ clients' = r.clients
            /\ NewClient(r.token)
            /\ UNCHANGED <<pc, cur, client_disconnect, packets_to_process,
                           reregs, io, poolVars, envVars, lockVars>>

\* Handler::ready for a client token: client_ready starts
Ready(t, events) ==
    /\ pc = "idle"
    /\ t \in DOMAIN armed
    /\ events # {}
    /\ events \subseteq armed[t]
    /\ armed' = [x \in DOMAIN armed \ {t} |-> armed[x]]
    /\ cur' = [token |-> t, events |-> events]
    /\ client_disconnect' = FALSE
    /\ packets_to_process' = <<>>
    /\ reregs' = 0
    /\ io' = NoIo
    /\ pc' = "read"
    /\ UNCHANGED <<clients, token_count, readVars, writeVars, is_alive,
                   interest, shut, poolVars, envVars, lockVars, syncVars>>

\* self.clients.get(&token).unwrap() fails
LookupPanics ==
    /\ pc' = "panicked"
    /\ UNCHANGED <<clients, token_count, armed, cur, client_disconnect,
                   packets_to_process, reregs, io, readVars, writeVars, is_alive,
                   interest, shut, poolVars, envVars, lockVars, syncVars>>

\* client.borrow() on the reactor thread panics
BorrowPanics ==
    /\ pc' = "panicked"
    /\ UNCHANGED <<clients, token_count, armed, cur, client_disconnect,
                   packets_to_process, reregs, io, readVars, writeVars, is_alive,
                   interest, shut, poolVars, envVars, lockVars, syncVars>>

\* client_ready, lines 267-280: readable(), then the packet queue is moved
\* into packets_to_process
ClientReadyRead(results) ==
    /\ pc = "read"
    /\ IF "readable" \notin cur.events
       THEN /\ pc' = "write"
            /\ UNCHANGED <<clients, token_count, armed, cur, client_disconnect,
                           packets_to_process, reregs, io, readVars, writeVars,
                           is_alive, interest, shut, poolVars, envVars, lockVars,
                           syncVars>>
       ELSE IF cur.token \notin clients THEN LookupPanics
       ELSE \E b \in borrow(raced[cur.token]) :
            IF b = "panic" THEN BorrowPanics
            ELSE \E res \in results :
            LET t == cur.token
                r == readable(read_buffer[t], packet_queue[t], res)
            IN  /\ read_buffer' = [read_buffer EXCEPT ![t] = r.rb]
                /\ shut'     = [shut     EXCEPT ![t] = @ \/ r.fatal]
                /\ is_alive' = [is_alive EXCEPT ![t] = IF r.fatal THEN FALSE ELSE @]
                /\ client_disconnect' = r.fatal
                /\ io' = [io EXCEPT !.read = res.kind,
                                    !.set_alive = IF r.fatal THEN Append(@, FALSE)
                                                             ELSE @,
                                    !.pushed = SubSeq(r.pq, Len(packet_queue[t]) + 1,
                                                      Len(r.pq))]
                /\ IF r.panic
                   THEN /\ pc' = "panicked"
                        /\ packet_queue' = [packet_queue EXCEPT ![t] = r.pq]
                        /\ UNCHANGED packets_to_process
                   ELSE /\ pc' = "write"
                        /\ packet_queue' = [packet_queue EXCEPT ![t] = <<>>]
                        /\ packets_to_process' =
                             [i \in 1..Len(r.pq) |->
                                [packet |-> r.pq[i], client |-> t]]
                /\ poisoned' = [poisoned EXCEPT ![t] = @ \cup r.poison]
                /\ \E f \in Races(REACTOR, t) : raced' = [raced EXCEPT ![t] = f]
                /\ UNCHANGED <<clients, token_count, armed, cur, reregs,
                               writeVars, interest, poolVars, envVars, lockVars>>

\* client_ready, lines 282-286: writeable().  An empty write buffer is the
\* "zero bytes available to peek" case; with bytes to offer the peek may
\* fail, or the write returns.
ClientReadyWrite(oks) ==
    /\ pc = "write"
    /\ IF "writable" \notin cur.events
       THEN /\ pc' = "submit"
            /\ UNCHANGED <<clients, token_count, armed, cur, client_disconnect,
                           packets_to_process, reregs, io, readVars, writeVars,
                           is_alive, interest, shut, poolVars, envVars, lockVars,
                           syncVars>>
       ELSE IF cur.token \notin clients THEN LookupPanics
       ELSE \E b \in borrow(raced[cur.token]) :
            IF b = "panic" THEN BorrowPanics
            ELSE
            LET t    == cur.token
                size == peek_max(write_buffer[t], 0, CHUNK)
            IN  \E res \in IF size > 0 THEN WriteResults(size, shut[t], oks)
                                       ELSE {NoWrite} :
                LET r == writeable(write_buffer[t], res) IN
                /\ Writeable(t, res)
                /\ client_disconnect' = (client_disconnect \/ r.disconnect)
                /\ io' = [io EXCEPT !.write = res.kind,
                                    !.set_alive =
                                       IF r.dead THEN Append(@, FALSE) ELSE @]
                /\ pc' = IF r.panic THEN "panicked" ELSE "submit"
                /\ poisoned' = [poisoned EXCEPT ![t] =
                                  IF r.panic THEN @ \cup {"write_buffer", "client"}
                                             ELSE @]
                /\ \E f \in Races(REACTOR, t) : raced' = [raced EXCEPT ![t] = f]
                /\ UNCHANGED <<clients, token_count, armed, cur,
                               packets_to_process, reregs, readVars, interest,
                               poolVars, envVars, lockVars>>

\* client_ready, lines 288-290: one turn of the loop that hands the collected
\* jobs to the processor, one process_packet call per job; the step that
\* sends the last job leaves the loop
ClientReadySubmit ==
    /\ pc = "submit"
    /\ IF packets_to_process = <<>>
       THEN /\ pc' = "finish"
            /\ UNCHANGED <<chan, packets_to_process, io>>
       ELSE /\ chan' = process_packet(chan, Head(packets_to_process))
            /\ packets_to_process' = Tail(packets_to_process)
            /\ io' = [io EXCEPT !.submitted = Append(@, Head(packets_to_process))]
            /\ pc' = IF Tail(packets_to_process) = <<>> THEN "finish" ELSE pc
    /\ UNCHANGED <<clients, token_count, armed, cur, client_disconnect, reregs,
                   readVars, writeVars, is_alive, interest, shut, nthreads,
                   worker, processed, envVars, lockVars, syncVars>>

\* the end of client_ready without the re-registration
ClientReadyFinishNoRearm(reregs_results) ==
    /\ pc = "finish"
    /\ clients' = IF client_disconnect THEN clients \ {cur.token} ELSE clients
    /\ pc' = "idle"
    /\ UNCHANGED <<token_count, armed, cur, client_disconnect,
                   packets_to_process, reregs, io, readVars, writeVars, is_alive,
                   interest, shut, poolVars, envVars, lockVars, syncVars>>

\* client_ready, lines 292-303: remove the connection, or borrow it once
\* more, lock its socket and re-register it; reregister() returns one of
\* reregs_results, and on "err" the unwrap() panics with the socket's guard
\* held
ClientReadyFinish(reregs_results) ==
    /\ pc = "finish"
    /\ IF client_disconnect
       THEN /\ clients' = clients \ {cur.token}
            /\ pc' = "idle"
            /\ UNCHANGED <<armed, reregs, raced, poisoned>>
       ELSE IF cur.token \notin clients
       THEN /\ pc' = "panicked"
            /\ UNCHANGED <<clients, armed, reregs, raced, poisoned>>
       ELSE \E b \in borrow(raced[cur.token]) :
            IF b = "panic"
            THEN /\ pc' = "panicked"
                 /\ UNCHANGED <<clients, armed, reregs, raced, poisoned>>
            ELSE /\ \E rr \in reregs_results :
                      IF rr = "err"
                      THEN /\ pc' = "panicked"
                           /\ poisoned' = [poisoned EXCEPT ![cur.token] =
                                             @ \cup {"client"}]
                           /\ UNCHANGED <<armed, reregs>>
                      ELSE /\ armed' = (cur.token :> interest[cur.token]) @@ armed
                           /\ reregs' = reregs + 1
                           /\ pc' = "idle"
                           /\ UNCHANGED poisoned
                 /\ \E f \in Races(REACTOR, cur.token) :
                      raced' = [raced EXCEPT ![cur.token] = f]
                 /\ UNCHANGED clients
    /\ UNCHANGED <<token_count, cur, client_disconnect, packets_to_process,
                   io, readVars, writeVars, is_alive, interest, shut, poolVars,
                   envVars, lockVars>>

(***************************************************************************)
(* The reactor environment: peers that connect, send chunks, close or      *)
(* fail; sockets that accept all, one or none of the bytes offered; and    *)
(* one worker whose processing logic may answer a job with append_send.    *)
(***************************************************************************)
EventSets == {{"readable"}, {"writable"}, {"readable", "writable"}, {"hup"}}

\* L+4 bytes of the extended frame with L = 256
ShortExtChunk == SubSeq(Encode(Frame(TRUE, 256, 258, 7)), 1, 260)

\* half a short frame, a whole one, and a whole one followed by the chunk
\* that trips the extraction
ReadChunks == {<<1, 2>>, <<1, 2, 1, 2>>, <<1, 2, 1, 2>> \o ShortExtChunk}

JobsEver ==
    Len(chan) + BagCardinality(processed) + Len(packets_to_process)
      + Cardinality({w \in 1..nthreads : Busy(w)})

\* the packets the peers of the other connections have sent a part of
PartsElsewhere ==
    Cardinality({t \in DOMAIN read_buffer \ {cur.token} : read_buffer[t] # <<>>})

\* what read() returns for the connection being handled
ReadResults ==
    {ZeroRead, ErrRead, ShutdownErr(ZeroRead), ShutdownErr(ErrRead)} \cup
    {DataRead(c) : c \in {c \in ReadChunks :
        /\ JobsEver + PartsElsewhere < MaxTotalJobs
        /\ cur.token \in DOMAIN read_buffer
        /\ Len(read_buffer[cur.token]) + Len(c) <= MaxReadBuf}}

\* the processing logic answers at most once per connection
Replies(w) ==
    IF Busy(w) /\ write_buffer[worker[w].client] = <<>>
                         /\ sent[worker[w].client] = <<>>
    THEN {<<>>, Reply} ELSE {<<>>}

InitReactor ==
    /\ clients = {}
    /\ token_count = 0
    /\ armed = <<>>
    /\ pc = "idle"
    /\ cur = [token |-> 0, events |-> {}]
    /\ client_disconnect = FALSE
    /\ packets_to_process = <<>>
    /\ reregs = 0
    /\ io = NoIo
    /\ read_buffer = <<>>
    /\ write_buffer = <<>>
    /\ packet_queue = <<>>
    /\ is_alive = <<>>
    /\ interest = <<>>
    /\ shut = <<>>
    /\ sent = <<>>
    /\ raced = <<>>
    /\ poisoned = <<>>
    /\ IdlePool(1)
    /\ ThreadsIdle
    /\ stream = <<>>
    /\ wire = <<>>
    /\ out = [pos |-> 0, calls |-> 0]
    /\ submitted = <<>>

NextReactor ==
    \/ \E ev \in {{"readable"}, {"hup"}} :
         \E result \in {"client", "wouldblock", "error", "register_err"} :
           ServerReady(ev, result)
    \/ \E t \in DOMAIN armed : \E ev \in EventSets : Ready(t, ev)
    \/ ClientReadyRead(ReadResults)
    \/ ClientReadyWrite({1, CHUNK, Len(Reply)})
    \/ ClientReadySubmit
    \/ ClientReadyFinish({"ok", "err"})
    \/ \E w \in 1..nthreads : WorkerRecv(w)
    \/ \E w \in 1..nthreads : WorkerProcess(w, Replies(w))

SpecReactor == InitReactor /\ [][NextReactor]_vars

(***************************************************************************)
(* The field locks of one connection.  Every field of FiestaNetworkClient  *)
(* is a Mutex; a step of the code is, for the locks, the sequence of       *)
(* lock() calls and guard drops it makes.  A guard is dropped at the end   *)
(* of the scope that declares it, later guards first.                      *)
(***************************************************************************)
Fields == {"client", "read_buffer", "write_buffer", "packet_queue",
           "is_alive", "interest"}

Lock(f)   == [op |-> "lock", field |-> f]
Unlock(f) == [op |-> "unlock", field |-> f]
Remove    == [op |-> "remove", field |-> "none"]    \* self.clients.remove(&token)
\* an unwrap() panics on an Err: of shutdown(Shutdown::Both), of
\* read_bytes(size), of reregister(..)
Panic     == [op |-> "panic", field |-> "none"]

\* get_next_size: the guard lives to the end of the function
get_next_size_locks == <<Lock("read_buffer"), Unlock("read_buffer")>>

\* can_read_next_packet: get_next_size, and on Ok(s) the size test
can_read_next_packet_locks(sizeOk) ==
    get_next_size_locks \o
    (IF sizeOk THEN <<Lock("read_buffer"), Unlock("read_buffer")>> ELSE <<>>)

\* read_next_packet on a buffer that passes can_read_next_packet
read_next_packet_locks ==
    can_read_next_packet_locks(TRUE) \o get_next_size_locks \o
    <<Lock("read_buffer"), Lock("packet_queue"),
      Unlock("packet_queue"), Unlock("read_buffer")>>

\* read_next_packet on a buffer that passes can_read_next_packet without
\* holding the whole frame: read_bytes(size).unwrap() panics at line 76
read_next_packet_panics ==
    can_read_next_packet_locks(TRUE) \o get_next_size_locks \o
    <<Lock("read_buffer"), Panic>>

set_alive_locks == <<Lock("is_alive"), Unlock("is_alive")>>

RECURSIVE extract_loop_locks(_, _)
extract_loop_locks(frames, sizeOk) ==
    IF frames = 0 THEN can_read_next_packet_locks(sizeOk)
    ELSE can_read_next_packet_locks(TRUE) \o read_next_packet_locks
           \o extract_loop_locks(frames - 1, sizeOk)

\* readable: `kind` is what read() returns, `frames` the number of frames the
\* loop extracts, sizeOk whether a length field is left for the last test
readable_locks(kind, frames, sizeOk) ==
    <<Lock("client")>>
      \o (IF kind = "data" THEN <<Lock("read_buffer"), Unlock("read_buffer")>>
          ELSE IF kind = "shutdown_err" THEN <<Panic>>
          ELSE set_alive_locks)
      \o <<Unlock("client")>>
      \o extract_loop_locks(frames, sizeOk)

\* readable reading data, extracting `frames` frames and panicking in the
\* extraction of the next one
readable_panics(frames) ==
    <<Lock("client"), Lock("read_buffer"), Unlock("read_buffer"),
      Unlock("client")>>
      \o SubSeq(extract_loop_locks(frames, FALSE), 1,
                Len(extract_loop_locks(frames, FALSE))
                  - Len(can_read_next_packet_locks(FALSE)))
      \o can_read_next_packet_locks(TRUE) \o read_next_packet_panics

\* writeable: `kind` is what the peek and the write return
writeable_locks(kind) ==
    <<Lock("write_buffer")>>
      \o (IF kind = "none" THEN <<>>
          ELSE <<Lock("client")>>
                 \o (IF kind \in {"zero", "err"} THEN set_alive_locks
                     ELSE IF kind = "shutdown_err" THEN <<Panic>>
                     ELSE <<>>)
                 \o <<Unlock("client")>>)
      \o <<Unlock("write_buffer")>>

\* the re-arm of client_ready holding `first` while it takes `second`
rearm_order(first, second) ==
    <<Lock(first), Lock(second), Unlock(second), Unlock(first)>>

\* a re-arm that looks into the write buffer while it holds the interest
rearm_checks_buffer ==
    <<Lock("client")>> \o rearm_order("interest", "write_buffer")
      \o <<Unlock("client")>>

\* client_ready, lines 296-302: the socket's guard, then interest()
rearm_locks == rearm_order("client", "interest")

append_send_locks ==
    <<Lock("write_buffer"), Lock("interest"),
      Unlock("interest"), Unlock("write_buffer")>>

\* client_ready, lines 267-280: the read step of an event with `events`,
\* followed by the take of the packet queue, and whether it signals
\* disconnect.  A read of data completes up to MaxFrames frames; a read that
\* returns Ok(0) or Err adds nothing to the buffer the last loop left, so it
\* extracts none, and when its shutdown panics *disconnect is not set.
read_step_locks(events) ==
    IF "readable" \in events
    THEN {[locks |-> readable_locks("data", fr, ok)
                       \o <<Lock("packet_queue"), Unlock("packet_queue")>>,
           dead  |-> FALSE] : fr \in 0..MaxFrames, ok \in BOOLEAN}
         \cup {[locks |-> readable_locks(rk, 0, ok)
                            \o <<Lock("packet_queue"), Unlock("packet_queue")>>,
                dead  |-> TRUE] : rk \in {"zero", "err"}, ok \in BOOLEAN}
         \cup {[locks |-> readable_locks("shutdown_err", 0, FALSE),
                dead  |-> FALSE]}
         \cup {[locks |-> readable_panics(fr), dead |-> FALSE] :
                  fr \in 0..MaxFrames}
    ELSE {[locks |-> <<>>, dead |-> FALSE]}

\* client_ready, lines 282-286: the flush step of an event with `events`
flush_step_locks(events) ==
    IF "writable" \in events
    THEN {[locks |-> writeable_locks(wk),
           dead  |-> wk \in {"zero", "err", "peekerr"}] :
            wk \in {"none", "ok", "zero", "err", "peekerr", "shutdown_err"}}
    ELSE {[locks |-> <<>>, dead |-> FALSE]}

\* the re-arm whose reregister(..).unwrap() panics at line 302, under the
\* socket's guard and after interest() has returned
rearm_panics == <<Lock("client"), Lock("interest"), Unlock("interest"), Panic>>

\* client_ready, lines 293-303: drop the connection or re-arm it
finish_step_locks(disconnect) ==
    IF disconnect THEN {<<Remove>>} ELSE {rearm_locks, rearm_panics}

(***************************************************************************)
(* The lock environment: the reactor handles up to MaxEvents events of     *)
(* connection 1, each one a read step, a flush step and the re-arm, while  *)
(* the worker threads call append_send on it; each thread takes one lock   *)
(* operation at a time.  A thread holds no lock between two calls, so a    *)
(* worker thread stands for one call of append_send and MaxWorkers bounds  *)
(* the number of calls.                                                    *)
(***************************************************************************)
Holder(f) == {th \in Threads : \E i \in 1..Len(held[th]) : held[th][i] = f}

RECURSIVE Without(_, _)
Without(q, f) ==
    IF q = <<>> THEN <<>>
    ELSE IF Head(q) = f THEN Tail(q) ELSE <<Head(q)>> \o Without(Tail(q), f)

InitLocks ==
    /\ OneClient
    /\ IdlePool(MaxWorkers)
    /\ ThreadsIdle
    /\ stream = <<>>
    /\ wire = <<>>
    /\ out = [pos |-> 0, calls |-> 0]
    /\ submitted = <<>>

\* Handler::ready delivers an event of connection 1 to the reactor thread,
\* which, when the event is readable, borrows the connection and starts the
\* read step; an event that is neither readable nor writable goes on to the
\* re-arm
StartEvent ==
    /\ pc = "idle"
    /\ at[REACTOR] = <<>>
    /\ 1 \in clients
    /\ runs[REACTOR] < MaxEvents
    /\ runs' = [runs EXCEPT ![REACTOR] = @ + 1]
    /\ \E ev \in EventSets :
       \E b \in IF "readable" \in ev THEN borrow(raced[1]) ELSE {"ok"} :
         /\ cur' = [token |-> 1, events |-> ev]
         /\ IF b = "panic"
            THEN /\ pc' = "panicked"
                 /\ UNCHANGED <<at, client_disconnect, raced>>
            ELSE /\ pc' = "write"
                 /\ \E r \in read_step_locks(ev) :
                      /\ at' = [at EXCEPT ![REACTOR] = r.locks]
                      /\ client_disconnect' = r.dead
                 /\ \E f \in IF "readable" \in ev THEN Races(REACTOR, 1)
                                                  ELSE {raced[1]} :
                      raced' = [raced EXCEPT ![1] = f]
    /\ UNCHANGED <<held, clients, token_count, armed, packets_to_process,
                   reregs, io, readVars, writeVars, is_alive, interest, shut,
                   poolVars, envVars, poisoned>>

\* the read step is over: the reactor borrows the connection for the flush
\* step
StartFlush ==
    /\ pc = "write"
    /\ at[REACTOR] = <<>>
    /\ \E b \in IF "writable" \in cur.events THEN borrow(raced[1]) ELSE {"ok"} :
         IF b = "panic"
         THEN /\ pc' = "panicked"
              /\ UNCHANGED <<at, client_disconnect, raced>>
         ELSE /\ pc' = "finish"
              /\ \E w \in flush_step_locks(cur.events) :
                   /\ at' = [at EXCEPT ![REACTOR] = w.locks]
                   /\ client_disconnect' = (client_disconnect \/ w.dead)
              /\ \E f \in IF "writable" \in cur.events THEN Races(REACTOR, 1)
                                                       ELSE {raced[1]} :
                   raced' = [raced EXCEPT ![1] = f]
    /\ UNCHANGED <<held, runs, clients, token_count, armed, cur,
                   packets_to_process, reregs, io, readVars, writeVars,
                   is_alive, interest, shut, poolVars, envVars, poisoned>>

\* the flush step is over: the reactor drops the connection, or borrows it
\* and re-arms it
StartFinish ==
    /\ pc = "finish"
    /\ at[REACTOR] = <<>>
    /\ \E b \in IF client_disconnect THEN {"ok"} ELSE borrow(raced[1]) :
         IF b = "panic"
         THEN /\ pc' = "panicked"
              /\ UNCHANGED <<at, raced>>
         ELSE /\ pc' = "idle"
              /\ \E prog \in finish_step_locks(client_disconnect) :
                   at' = [at EXCEPT ![REACTOR] = prog]
              /\ \E f \in IF client_disconnect THEN {raced[1]}
                                               ELSE Races(REACTOR, 1) :
                   raced' = [raced EXCEPT ![1] = f]
    /\ UNCHANGED <<held, runs, clients, token_count, armed, cur,
                   client_disconnect, packets_to_process, reregs, io, readVars,
                   writeVars, is_alive, interest, shut, poolVars, envVars,
                   poisoned>>

\* the processing logic, on worker thread w, borrows the connection and
\* calls append_send
StartAppend(w) ==
    /\ w \in 1..MaxWorkers
    /\ at[w] = <<>>
    /\ runs[w] = 0
    /\ runs' = [runs EXCEPT ![w] = @ + 1]
    /\ \E b \in borrow(raced[1]) :
         IF b = "panic"
         THEN /\ worker' = [worker EXCEPT ![w] = Dead]
              /\ UNCHANGED <<at, raced>>
         ELSE /\ at' = [at EXCEPT ![w] = append_send_locks]
              /\ \E f \in Races(w, 1) : raced' = [raced EXCEPT ![1] = f]
              /\ UNCHANGED worker
    /\ UNCHANGED <<held, reactorVars, readVars, writeVars, is_alive, interest,
                   shut, chan, nthreads, processed, envVars, poisoned>>

\* the fields of a sequence of held locks
HeldSet(q) == {q[i] : i \in 1..Len(q)}

\* thread th makes the next lock operation of its step; lock() waits while
\* some thread holds the field's lock.  A panic, of the step itself or of
\* the unwrap() of lock() on a poisoned Mutex, unwinds the thread: its
\* guards are dropped and their locks poisoned.
LockStep(th) ==
    /\ at[th] # <<>>
    /\ LET o == Head(at[th]) IN
       /\ o.op = "lock" => Holder(o.field) = {}
       /\ IF o.op = "panic" \/ (o.op = "lock" /\ o.field \in poisoned[1])
          THEN /\ held' = [held EXCEPT ![th] = <<>>]
               /\ at' = [at EXCEPT ![th] = <<>>]
               /\ poisoned' = [poisoned EXCEPT ![1] = @ \cup HeldSet(held[th])]
               /\ pc' = IF th = REACTOR THEN "panicked" ELSE pc
               /\ worker' = IF th = REACTOR THEN worker
                            ELSE [worker EXCEPT ![th] = Dead]
               /\ UNCHANGED clients
          ELSE /\ held' = [held EXCEPT ![th] =
                             IF o.op = "lock" THEN Append(@, o.field)
                             ELSE IF o.op = "unlock" THEN Without(@, o.field)
                             ELSE @]
               /\ clients' = IF o.op = "remove" THEN clients \ {1} ELSE clients
               /\ at' = [at EXCEPT ![th] = Tail(@)]
               /\ UNCHANGED <<pc, worker, poisoned>>
    /\ UNCHANGED <<runs, token_count, armed, cur, client_disconnect,
                   packets_to_process, reregs, io, readVars, writeVars,
                   is_alive, interest, shut, chan, nthreads, processed,
                   envVars, raced>>

NextLocks ==
    \/ StartEvent
    \/ StartFlush
    \/ StartFinish
    \/ \E w \in 1..MaxWorkers : StartAppend(w)
    \/ \E th \in Threads : LockStep(th)

SpecLocks ==
    /\ InitLocks
    /\ [][NextLocks]_vars
    /\ WF_vars(StartFlush)
    /\ WF_vars(StartFinish)
    /\ \A th \in Threads : WF_vars(LockStep(th))

(***************************************************************************)
(* Properties of the framing, checked under SpecFrame.                     *)
(***************************************************************************)
\* the number of bytes of the stream read so far
Got == Len(StreamBytes(stream)) - Len(wire)

\* the size of the frame a buffer starts with as section 4.2 of the
\* specification defines it, or Err when the length field is not there yet
FrameSize(b) ==
    IF Len(b) = 0 THEN Err
    ELSE IF b[1] > 0 THEN 1 + 2 + b[1]
    ELSE IF Len(b) < 3 THEN Err
    ELSE 3 + 2 + (b[2] + 256 * b[3])

StartsWithFrame(b) == FrameSize(b) # Err /\ Len(b) >= FrameSize(b)

\* how many leading frames of stream s fit in its first n bytes, and how
\* many bytes they take
RECURSIVE CompleteFrames(_, _)
CompleteFrames(s, n) ==
    IF s = <<>> \/ Len(Encode(Head(s))) > n THEN [frames |-> 0, bytes |-> 0]
    ELSE LET r == CompleteFrames(Tail(s), n - Len(Encode(Head(s)))) IN
         [frames |-> r.frames + 1, bytes |-> r.bytes + Len(Encode(Head(s)))]

IsShortStream == Len(stream) = 1 /\ ~stream[1].ext /\ stream[1].len \in 1..255
IsExtStream   == Len(stream) = 1 /\ stream[1].ext /\ stream[1].len \in 256..65535

\* C1: a short frame [L][header:2][body:L], L in 1..255, read in any
\* sequence of non-empty chunks by an initially empty connection, never
\* aborts the read step, never yields more than one packet, and once all of
\* it is read has yielded exactly the one packet with the original header
\* and body and left the read buffer empty.
C1_ShortRoundTrip ==
    IsShortStream =>
        /\ pc # "panicked"
        /\ Len(packet_queue[1]) <= 1
        /\ wire = <<>> =>
             /\ packet_queue[1] = <<PacketOf(stream[1])>>
             /\ read_buffer[1] = <<>>

C1_Witness ==
    /\ IsShortStream
    /\ stream[1].len = 255
    /\ wire = <<>>
    /\ packet_queue[1] = <<[header |-> stream[1].header,
                           data |-> Body(255, stream[1].seed)]>>

\* C2: an extended frame [0][L:u16 LE][header:2][body:L], L in 256..65535,
\* read by an initially empty connection: while fewer than 3 + 2 + L bytes
\* are buffered no packet is produced and no extraction is attempted (the
\* bytes stay in the read buffer), and with all of it read exactly the one
\* packet with the original header and body has been produced.
C2_ExtendedRoundTrip ==
    IsExtStream =>
        /\ pc # "panicked"
        /\ Got < 3 + 2 + stream[1].len =>
             /\ packet_queue[1] = <<>>
             /\ read_buffer[1] = SubSeq(Encode(stream[1]), 1, Got)
        /\ wire = <<>> =>
             /\ packet_queue[1] = <<PacketOf(stream[1])>>
             /\ read_buffer[1] = <<>>

\* C3: a valid stream of K frames, cut into chunks in any way, never aborts
\* a read step and, once all of it is read, has pushed exactly the K packets
\* of the stream in order, the same sequence one read of the whole stream
\* pushes.
C3_PartialDelivery ==
    ValidStream(stream) =>
        /\ pc # "panicked"
        /\ wire = <<>> =>
             /\ packet_queue[1] = StreamPackets(stream)
             /\ packet_queue[1] =
                  readable(<<>>, <<>>, DataRead(StreamBytes(stream))).pq

\* C4: a read step (here on a stream of valid frames) whose buffer, after
\* the append, holds fewer bytes than the full size of the frame it starts
\* with (1+2+L, or 3+2+L when byte 0 is 0) finds can_read_next_packet false,
\* extracts nothing and leaves the buffer and the packet queue as they are.
C4_ExtractOnlyComplete ==
    [][(pc = "idle" /\ wire' # wire /\ ValidStream(stream)) =>
         LET b == read_buffer[1] \o SubSeq(wire, 1, Len(wire) - Len(wire')) IN
         ~StartsWithFrame(b) =>
             /\ ~can_read_next_packet(b)
             /\ read_buffer'[1] = b
             /\ packet_queue' = packet_queue
             /\ pc' = "idle"]_vars

\* C5: after every read step of a valid stream, with M complete frames and
\* a proper prefix of the next one read so far, exactly the first M packets
\* have been pushed and the read buffer holds exactly the bytes of the
\* partial frame; so the read buffer never starts with a complete frame.
C5_Backlog ==
    ValidStream(stream) =>
        LET c == CompleteFrames(stream, Got) IN
        /\ pc # "panicked"
        /\ packet_queue[1] = SubSeq(StreamPackets(stream), 1, c.frames)
        /\ read_buffer[1] = SubSeq(StreamBytes(stream), c.bytes + 1, Got)
        /\ ~StartsWithFrame(read_buffer[1])

\* C17: a read step that extracts one frame from a buffer b consumes the
\* bytes of the frame b starts with, where byte 0 alone decides the width of
\* the length field: 3 + 2 + L bytes when byte 0 is 0, L the little-endian
\* u16 at offset 1 (also when L <= 255), with the header at offsets 3..4;
\* 1 + 2 + L bytes when byte 0 is L in 1..255, with the header at offsets
\* 1..2.
C17_WidthByByteZero ==
    [][(wire' # wire /\ pc' # "panicked"
          /\ Len(packet_queue'[1]) = Len(packet_queue[1]) + 1) =>
         LET b   == read_buffer[1] \o SubSeq(wire, 1, Len(wire) - Len(wire'))
             pkt == packet_queue'[1][Len(packet_queue'[1])]
             w   == IF b[1] = 0 THEN 3 ELSE 1
         IN  /\ Len(b) - Len(read_buffer'[1]) = FrameSize(b)
             /\ pkt.header = b[w + 1] + 256 * b[w + 2]
             /\ Len(pkt.data) = FrameSize(b) - w - 2]_vars

(***************************************************************************)
(* Properties of the dispatch pool, checked under SpecPool.                *)
(***************************************************************************)
IsSubmitted(j) ==
    \E sb \in Submitters : \E k \in 1..submitted[sb] : j = JobOf(sb, k)

InChan(j) == Cardinality({i \in 1..Len(chan) : chan[i] = j})
InWorkers(j) == Cardinality({w \in 1..nthreads : worker[w] = j})
Invocations(j) == CopiesIn(j, processed)

\* every job is in exactly one place from its submission on: the channel,
\* one worker, or the inner processing logic, which saw it once
JobsConserved ==
    /\ \A j \in AllJobs :
         /\ InChan(j) + InWorkers(j) + Invocations(j)
              = (IF IsSubmitted(j) THEN 1 ELSE 0)
         /\ Invocations(j) <= 1
    /\ BagToSet(processed) \subseteq AllJobs

\* C6: with any worker count N >= 1 and submitters interleaved in any way,
\* no job is lost or duplicated, the inner processing logic is invoked at
\* most once per job, and every submitted job is eventually processed.
C6_Dispatch ==
    /\ []JobsConserved
    /\ \A j \in AllJobs : IsSubmitted(j) ~> (Invocations(j) = 1)

(***************************************************************************)
(* Properties of the write path, checked under SpecWrite.                  *)
(***************************************************************************)
\* C7: the bytes the socket accepted followed by the bytes still in the
\* write buffer are always exactly the bytes appended, in append order; and
\* while writable events keep being handled with writes that accept a
\* positive part of what they are offered, a non-empty write buffer
\* eventually becomes empty.
C7_WriteDrain ==
    /\ [](sent[1] \o write_buffer[1] = SubSeq(OutStream, 1, out.pos))
    /\ (write_buffer[1] # <<>>) ~> (write_buffer[1] = <<>>)

C7_Witness ==
    /\ out.calls = MaxAppends
    /\ out.pos > CHUNK
    /\ write_buffer[1] = <<>>
    /\ sent[1] = SubSeq(OutStream, 1, out.pos)

(***************************************************************************)
(* Properties of the reactor, checked under SpecReactor.                   *)
(***************************************************************************)
InClientReady == pc \in {"read", "write", "submit", "finish"}

\* the reactor has handled an event of a connection to the end
Handled == pc = "idle" /\ cur.token # SERVER_TOKEN

\* the tokens of the connections accepted so far
Issued == 1..token_count

\* C8: when the reactor has finished handling an event of a connection that
\* did not signal disconnect, the connection is in the registry and was
\* re-registered exactly once; and between events every connection of the
\* registry has one armed one-shot registration, with its current interest.
C8_Rearmed ==
    pc = "idle" =>
        /\ (cur.token # SERVER_TOKEN /\ ~client_disconnect) =>
              /\ cur.token \in clients
              /\ reregs = 1
        /\ \A t \in clients : t \in DOMAIN armed /\ armed[t] = interest[t]

C8_Witness ==
    /\ Handled
    /\ ~client_disconnect
    /\ io.read = "data"
    /\ read_buffer[cur.token] # <<>>
    /\ cur.token \in clients
    /\ cur.token \in DOMAIN armed
    /\ reregs = 1

\* C9: from the read that returned zero bytes on, the connection's liveness
\* flag is false and its socket shut down, the event yields no packet and
\* no job, no job is submitted until the next event, and when the reactor
\* has finished the event the connection is out of the registry.
C9_ZeroRead ==
    /\ [](io.read = "zero" =>
            /\ ~is_alive[cur.token]
            /\ shut[cur.token]
            /\ client_disconnect
            /\ packet_queue[cur.token] = <<>>
            /\ packets_to_process = <<>>
            /\ ~InClientReady => cur.token \notin clients)
    /\ [][io'.read = "zero" => Len(chan') <= Len(chan)]_vars

\* C10: a connection that signaled disconnect is out of the registry when
\* the reactor is through with the event, however the event ends; a token
\* that left the registry never re-enters it, has no armed registration,
\* and is never the token of an event the reactor handles: client_ready
\* only runs for tokens of the registry.
C10_Terminal ==
    /\ []((~InClientReady /\ cur.token # SERVER_TOKEN /\ client_disconnect) =>
            cur.token \notin clients)
    /\ [](\A t \in Issued \ clients : t \notin DOMAIN armed)
    /\ [](InClientReady => cur.token \in clients)
    /\ [][\A t \in Issued : t \notin clients => t \notin clients']_vars
    /\ [][token_count' >= token_count]_vars

\* C11: every accepted connection gets a token greater than every token
\* issued before it, never the listener's token 0 and never a token that is
\* or was in the registry, whether or not its registration with the event
\* loop succeeds; the registry holds issued tokens only; and an accept that
\* reports would-block leaves the counter and the registry as they are.
C11_FreshTokens ==
    /\ [](clients \subseteq Issued /\ SERVER_TOKEN \notin clients)
    /\ [][\A t \in clients' \ clients :
             /\ t = token_count'
             /\ \A u \in Issued \cup {SERVER_TOKEN} : t > u
             /\ t \notin DOMAIN is_alive]_vars
    /\ [][token_count' # token_count =>
             /\ \A u \in Issued \cup {SERVER_TOKEN} : token_count' > u
             /\ token_count' \notin clients \cup DOMAIN is_alive
             /\ clients' \in {clients, clients \cup {token_count'}}]_vars
    /\ [](\A ev \in {{"readable"}, {"hup"}} :
            LET r == server_ready(token_count, clients, ev, "wouldblock") IN
            r.count = token_count /\ r.clients = clients /\ ~r.accepted)

C11_Witness ==
    /\ token_count = 2
    /\ clients = {2}
    /\ DOMAIN is_alive = {1, 2}
    /\ pc = "idle"

\* the jobs client_ready makes of the packets of connection t
JobsOf(t, pkts) == [i \in 1..Len(pkts) |-> [packet |-> pkts[i], client |-> t]]

\* C12: when the reactor is through with an event of a connection, the jobs
\* it submitted during the event are exactly the frames extracted during the
\* event, one job per frame in extraction order, whether or not the flush
\* step signaled disconnect, and the connection's packet queue is empty; each
\* submission appends the next of them to the processor's queue.
C12_Submitted ==
    /\ []((pc \in {"idle", "panicked"} /\ cur.token # SERVER_TOKEN) =>
            /\ io.submitted = JobsOf(cur.token, io.pushed)
            /\ packet_queue[cur.token] = <<>>)
    /\ [][(pc = "submit" /\ packets_to_process # <<>>) =>
             LET k == Len(io.submitted) + 1 IN
             /\ io'.submitted = SubSeq(JobsOf(cur.token, io.pushed), 1, k)
             /\ chan' = Append(chan, JobsOf(cur.token, io.pushed)[k])]_vars

\* C13: the interest set of every connection of the registry includes
\* readable; no step (read step, flush step, append_send, re-arm) takes
\* writable out of an interest set that has it; and append_send, on any
\* interest set, leaves one that includes writable and all it had before.
C13_Interest ==
    /\ [](\A t \in clients : "readable" \in interest[t])
    /\ [][\A t \in DOMAIN interest :
             "writable" \in interest[t] => "writable" \in interest'[t]]_vars
    /\ [](\A t \in DOMAIN write_buffer : \A int \in SUBSET AllEvents :
            LET r == append_send(write_buffer[t], int, Reply) IN
            "writable" \in r.interest /\ int \subseteq r.interest)

C13_Witness ==
    /\ Handled
    /\ cur.token \in clients
    /\ write_buffer[cur.token] = Reply
    /\ {"readable", "writable"} \subseteq interest[cur.token]
    /\ armed[cur.token] = interest[cur.token]

\* connection t is in the same state before and after the step
Untouched(t) ==
    /\ (t \in clients) = (t \in clients')
    /\ (t \in DOMAIN armed) = (t \in DOMAIN armed')
    /\ t \in DOMAIN armed => armed'[t] = armed[t]
    /\ read_buffer'[t] = read_buffer[t]
    /\ write_buffer'[t] = write_buffer[t]
    /\ packet_queue'[t] = packet_queue[t]
    /\ is_alive'[t] = is_alive[t]
    /\ interest'[t] = interest[t]
    /\ shut'[t] = shut[t]
    /\ sent'[t] = sent[t]

\* C15: whatever the reactor meets while it handles an event of one
\* connection (read error, zero-byte read, write error, zero-byte write, a
\* malformed or short frame in the read buffer), its step leaves every other
\* connection as it is and, when there are other connections in the
\* registry, the reactor thread alive, so that they keep being served.
C15_FaultsStayLocal ==
    [][(InClientReady /\ pc' # pc) =>
         /\ \A t \in DOMAIN is_alive \ {cur.token} : Untouched(t)
         /\ clients \ {cur.token} # {} => pc' # "panicked"]_vars

\* C16: a connection's liveness flag starts true, never goes from false back
\* to true, and false is written to it at most once: set_alive(false) is
\* only ever called on a flag that is still true, also when one event is
\* readable and writable and both steps meet a fatal condition.
C16_FalseOnce ==
    /\ [][\A t \in DOMAIN is_alive' \ DOMAIN is_alive : is_alive'[t]]_vars
    /\ [][\A t \in DOMAIN is_alive : ~is_alive[t] => ~is_alive'[t]]_vars
    /\ [][Len(io'.set_alive) > Len(io.set_alive) => is_alive[cur.token]]_vars
    /\ [](Len(io.set_alive) <= 1)

\* C19: the flush step of a writable event that finds the write buffer
\* empty writes nothing, does not shut the socket down, does not signal
\* disconnect and lets the reactor go on; and a connection whose event was
\* writable only, with nothing to flush, is re-armed by the step that ends
\* the event, and is in the registry and armed when the event is finished.
C19_EmptyFlushNoOp ==
    /\ [][(pc = "write" /\ pc' # pc /\ "writable" \in cur.events
             /\ write_buffer[cur.token] = <<>>) =>
             /\ pc' = "submit"
             /\ io'.write = "none"
             /\ sent' = sent
             /\ write_buffer'[cur.token] = <<>>
             /\ shut' = shut
             /\ is_alive' = is_alive
             /\ client_disconnect' = client_disconnect]_vars
    /\ [][(pc = "finish" /\ pc' # pc /\ cur.events = {"writable"}
             /\ io.write = "none" /\ write_buffer[cur.token] = <<>>) =>
             pc' = "idle"]_vars
    /\ []((Handled /\ cur.events = {"writable"} /\ io.write = "none") =>
            /\ ~client_disconnect
            /\ cur.token \in clients
            /\ reregs = 1
            /\ cur.token \in DOMAIN armed)

\* C20: between events, a connection ever accepted is out of the registry
\* exactly if its liveness flag is false; and whenever a connection leaves
\* the registry (after a read error, a zero-byte read, a write error, a
\* zero-byte write or an error peeking the write buffer), its liveness flag
\* has been cleared.
C20_RegistryMatchesLiveness ==
    /\ [](pc = "idle" => \A t \in Issued : (t \notin clients) <=> ~is_alive[t])
    /\ [][\A t \in clients \ clients' : ~is_alive[t]]_vars

(***************************************************************************)
(* Properties of the field locks, checked under SpecLocks.                 *)
(***************************************************************************)
\* C14: no thread holds the lock of one field of the connection at the
\* moment it takes the lock of another field.
C14_OneLockAtATime ==
    [][\A th \in Threads :
         Len(held'[th]) > Len(held[th]) => held[th] = <<>>]_vars

\* thread a waits in lock() for a field whose lock thread b holds
WaitsFor(a, b) ==
    /\ at[a] # <<>>
    /\ Head(at[a]).op = "lock"
    /\ b \in Holder(Head(at[a]).field)

\* a set of threads each of which waits for a lock one of them holds
Deadlocked(S) == S # {} /\ \A a \in S : \E b \in S : WaitsFor(a, b)

\* C18: with the reactor in its read, flush and re-arm steps and the worker
\* threads in append_send, interleaved in any way, there is never a set of
\* threads that wait for each other's locks, and every step a thread has
\* started ends with its locks released: the steps being finitely many,
\* from some point on no thread is inside a step or holds a lock.
C18_NoDeadlock ==
    /\ [](\A S \in SUBSET Threads : ~Deadlocked(S))
    /\ <>[](\A th \in Threads : at[th] = <<>> /\ held[th] = <<>>)

C18_Witness ==
    /\ held[REACTOR] = <<"write_buffer", "client">>
    /\ WaitsFor(1, REACTOR)
    /\ runs[2] = 1
    /\ at[2] = <<>>

====
